---- MODULE Spec2Model ----
(***************************************************************************)
(* AiCode (aicode_compact.py, aicode_single.py): the interactive loop, the  *)
(* conversation turn, the TOOL: parser, the tool executor, the code        *)
(* analyzer, the model table, the context document and the session store   *)
(* of CompactAiCode and of AiCode.                                         *)
(*                                                                         *)
(* Text is modelled as a sequence of one-character strings, so that the    *)
(* regular expression, str.split, str.strip and str.upper are computed     *)
(* character by character as Python computes them.                         *)
(***************************************************************************)
EXTENDS Integers, Sequences, FiniteSets, TLC

VARIABLES
    variant,               \* the program that runs: "compact" (aicode_compact.py) or "single" (aicode_single.py)
    pc,                    \* position of run(): "Idle", "AwaitingResponse", "Tools", "Running", "Exited", "Crashed"
    user_input,            \* the text of the turn being processed
    conversation_history,  \* self.conversation_history
    context,               \* self.context
    current_model,         \* self.current_model
    messages,              \* the message list of the request in flight
    sent,                  \* number of requests posted during the current turn
    console,               \* what the current turn printed (session-level notices)
    matches,               \* invocations of the tool turn not yet executed
    running,               \* the command of the process subprocess.run waits for, <<>> when there is none
    results,               \* the executions of the tool turn: invocation, printed result, effects
    fs,                    \* the files on disk: path -> contents
    analysis,              \* what /analyze printed in this turn: the text analysed and the summary
    last_outcome,          \* what the completion endpoint answered to the last request
    models,                \* self.config['models']: option name -> endpoint
    endpoint,              \* the endpoint the request of the current turn was posted to
    context_file,          \* aicode.md on disk
    sessions_file,         \* sessions.json on disk: session name -> the JSON text of its snapshot
    saved                  \* history variable: session name -> what the session held when it was last saved under that name

vars == <<variant, pc, user_input, conversation_history, context, current_model,
          messages, sent, console, matches, running, results, fs, analysis, last_outcome,
          models, endpoint, context_file, sessions_file, saved>>

(***************************************************************************)
(* Bounds                                                                  *)
(***************************************************************************)
MaxHistory == 4        \* a conversation turn starts only while the history is no longer than this
MaxLines == 3          \* the analysed sources have at most this many lines
MaxSession == 2        \* in the session with its commands a conversation turn starts only while the history is shorter than this

(***************************************************************************)
(* Characters and Python's str primitives                                  *)
(***************************************************************************)
Min(a, b) == IF a < b THEN a ELSE b

Lower == <<"a","b","c","d","e","f","g","h","i","j","k","l","m","n","o","p","q","r","s","t","u","v","w","x","y","z">>
Upper == <<"A","B","C","D","E","F","G","H","I","J","K","L","M","N","O","P","Q","R","S","T","U","V","W","X","Y","Z">>
Digit == <<"0","1","2","3","4","5","6","7","8","9">>

Range(s) == {s[i] : i \in DOMAIN s}

\* \w of the re module (ASCII part)
WordChars == Range(Lower) \cup Range(Upper) \cup Range(Digit) \cup {"_"}

IsWord(c) == c \in WordChars

\* \s of the re module, and the whitespace of str.split()
IsSpace(c) == c \in {" ", "\t", "\n", "\r"}

NotSpace(c) == ~IsSpace(c)

\* [^\n]
NotNewline(c) == c # "\n"

IsQuote(c) == c \in {"\"", "'"}

upper_char(c) ==
    IF \E i \in DOMAIN Lower : Lower[i] = c
    THEN Upper[CHOOSE i \in DOMAIN Lower : Lower[i] = c]
    ELSE c

\* str.upper()
upper(s) == [i \in DOMAIN s |-> upper_char(s[i])]

lower_char(c) ==
    IF \E i \in DOMAIN Upper : Upper[i] = c
    THEN Lower[CHOOSE i \in DOMAIN Upper : Upper[i] = c]
    ELSE c

\* str.lower()
lower(s) == [i \in DOMAIN s |-> lower_char(s[i])]

\* str.strip()
strip(s) ==
    LET b == IF \A k \in DOMAIN s : IsSpace(s[k]) THEN Len(s) + 1
             ELSE CHOOSE j \in DOMAIN s : ~IsSpace(s[j]) /\ \A k \in 1..(j - 1) : IsSpace(s[k])
        e == IF b > Len(s) THEN Len(s)
             ELSE CHOOSE j \in b..Len(s) :
                    /\ ~IsSpace(s[j])
                    /\ \A k \in (j + 1)..Len(s) : IsSpace(s[k])
    IN SubSeq(s, b, e)

\* sub in s
Contains(s, sub) ==
    \E i \in 1..(Len(s) - Len(sub) + 1) : SubSeq(s, i, i + Len(sub) - 1) = sub

\* s.startswith(p)
StartsWith(s, p) == Len(s) >= Len(p) /\ SubSeq(s, 1, Len(p)) = p

\* a greedy run: the first position at or after i whose character fails P
Skip(s, i, P(_)) ==
    CHOOSE j \in i..(Len(s) + 1) :
        /\ \A k \in i..(j - 1) : P(s[k])
        /\ (j = Len(s) + 1 \/ ~P(s[j]))

\* str.split(): the maximal runs of non-whitespace, in order
RECURSIVE SplitFrom(_, _)
SplitFrom(s, i) ==
    LET b == Skip(s, i, IsSpace)
        e == Skip(s, b, NotSpace)
    IN IF b > Len(s) THEN <<>>
       ELSE <<SubSeq(s, b, e - 1)>> \o SplitFrom(s, e)

split(s) == SplitFrom(s, 1)

\* str.strip('"\''): drop the quote characters at both ends
strip_quotes(s) ==
    LET b == Skip(s, 1, IsQuote)
        e == IF b > Len(s) THEN Len(s)
             ELSE CHOOSE j \in b..Len(s) :
                    /\ ~IsQuote(s[j])
                    /\ \A k \in (j + 1)..Len(s) : IsQuote(s[k])
    IN SubSeq(s, b, e)

\* arg.split('=', 1) of a token that contains '='
split_eq(arg) ==
    LET p == CHOOSE j \in DOMAIN arg : arg[j] = "=" /\ \A k \in 1..(j - 1) : arg[k] # "="
    IN [key |-> SubSeq(arg, 1, p - 1), value |-> SubSeq(arg, p + 1, Len(arg))]

\* str(n) of a natural number
RECURSIVE Str(_)
Str(n) == IF n < 10 THEN <<Digit[n + 1]>> ELSE Str(n \div 10) \o <<Digit[(n % 10) + 1]>>

IsNumber(s) == Len(s) > 0 /\ \A i \in DOMAIN s : s[i] \in Range(Digit)

DigitVal(c) == (CHOOSE i \in DOMAIN Digit : Digit[i] = c) - 1

RECURSIVE ToInt(_)
ToInt(s) == IF Len(s) = 0 THEN 0
            ELSE 10 * ToInt(SubSeq(s, 1, Len(s) - 1)) + DigitVal(s[Len(s)])

\* a Python string result: the literal parts of an f-string and the values
\* interpolated after each of them
Fmt(lit, val) == <<[lit |-> lit, val |-> val]>>

(***************************************************************************)
(* Words used by the code and by the inputs                                *)
(***************************************************************************)
TOOL_COLON == <<"T","O","O","L",":">>
read_file == <<"r","e","a","d","_","f","i","l","e">>
write_file == <<"w","r","i","t","e","_","f","i","l","e">>
execute_command == <<"e","x","e","c","u","t","e","_","c","o","m","m","a","n","d">>
analyze_code == <<"a","n","a","l","y","z","e","_","c","o","d","e">>
list_files == <<"l","i","s","t","_","f","i","l","e","s">>
key_path == <<"p","a","t","h">>
key_content == <<"c","o","n","t","e","n","t">>
key_command == <<"c","o","m","m","a","n","d">>
key_code == <<"c","o","d","e">>
dot == <<".">>
word_exit == <<"e","x","i","t">>
word_true == <<"t","r","u","e">>
word_cat == <<"c","a","t">>

word_import == <<"i","m","p","o","r","t">>
word_from == <<"f","r","o","m">>
word_def == <<"d","e","f">>
word_class == <<"c","l","a","s","s">>
word_pass == <<"p","a","s","s">>

(***************************************************************************)
(* _execute_tool_request: the TOOL: parser                                 *)
(***************************************************************************)
NoMatch(i) ==
    [ok |-> FALSE, name |-> <<>>, args |-> <<>>,
     start |-> i, name_start |-> i, name_end |-> i, end |-> i]

\* ([^\n]*): the arguments run from d to the end of the line
MatchArgs(s, i, b, c, d, e) ==
    [ok |-> TRUE, name |-> SubSeq(s, b, c - 1), args |-> SubSeq(s, d, e - 1),
     start |-> i, name_start |-> b, name_end |-> c, end |-> e]

\* \s* behind the name, which ends in front of c
MatchGap(s, i, b, c, d) == MatchArgs(s, i, b, c, d, Skip(s, d, NotNewline))

\* (\w+): at least one word character from b on
MatchName(s, i, b, c) ==
    IF c > b THEN MatchGap(s, i, b, c, Skip(s, c, IsSpace)) ELSE NoMatch(i)

\* \s* behind the token
MatchToken(s, i, b) == MatchName(s, i, b, Skip(s, b, IsWord))

\* one attempt of r'TOOL:\s*(\w+)\s*([^\n]*)' with re.IGNORECASE at position i
MatchAt(s, i) ==
    IF /\ i + Len(TOOL_COLON) - 1 <= Len(s)
       /\ upper(SubSeq(s, i, i + Len(TOOL_COLON) - 1)) = TOOL_COLON
    THEN MatchToken(s, i, Skip(s, i + Len(TOOL_COLON), IsSpace))
    ELSE NoMatch(i)

\* re.findall: leftmost non-overlapping matches, scanning from position i
RECURSIVE FindAllFrom(_, _)
FindAllNext(s, i, m) ==
    IF m.ok THEN <<m>> \o FindAllFrom(s, m.end) ELSE FindAllFrom(s, i + 1)

FindAllFrom(s, i) ==
    IF i > Len(s) THEN <<>> ELSE FindAllNext(s, i, MatchAt(s, i))

\* matches = re.findall(tool_pattern, user_input, re.IGNORECASE)
FindAll(s) == FindAllFrom(s, 1)

(***************************************************************************)
(* _execute_tool: argument parsing                                         *)
(***************************************************************************)
EmptyArgs == [k \in {} |-> <<>>]

Put(args, key, value) ==
    [k \in (DOMAIN args) \cup {key} |-> IF k = key THEN value ELSE args[k]]

\* args.get(key, default)
Get(args, key, default) == IF key \in DOMAIN args THEN args[key] ELSE default

\* the loop keeping the first value of a key
RECURSIVE ParseTokensFirstWins(_, _)
ParseTokensFirstWins(tokens, args) ==
    IF tokens = <<>> THEN args
    ELSE LET arg == Head(tokens)
         IN IF "=" \in Range(arg) /\ split_eq(arg).key \notin DOMAIN args
            THEN ParseTokensFirstWins(Tail(tokens),
                             Put(args, split_eq(arg).key, strip_quotes(split_eq(arg).value)))
            ELSE ParseTokensFirstWins(Tail(tokens), args)

RECURSIVE ParseTokens(_, _)
ParseTokens(tokens, args) ==
    IF tokens = <<>> THEN args
    ELSE LET arg == Head(tokens)
         IN IF "=" \in Range(arg)
            THEN ParseTokens(Tail(tokens),
                             Put(args, split_eq(arg).key, strip_quotes(split_eq(arg).value)))
            ELSE ParseTokens(Tail(tokens), args)

\* the loop over args_str.split()
ParseArgs(args_str) ==
    IF args_str = <<>> THEN EmptyArgs ELSE ParseTokens(split(args_str), EmptyArgs)

(***************************************************************************)
(* The collaborators of the tools: the shell and Python's parser           *)
(***************************************************************************)
KnownCommands == {word_true}

\* subprocess.run(command, shell=True, capture_output=True, text=True)
ShellWords(words) ==
    IF words = <<>> THEN [returncode |-> 0, stdout |-> <<>>, stderr |-> <<>>]
    ELSE IF words[1] = word_exit
         THEN [returncode |-> IF Len(words) > 1 /\ IsNumber(words[2])
                              THEN ToInt(words[2]) % 256 ELSE 0,
               stdout |-> <<>>, stderr |-> <<>>]
    ELSE IF words[1] \in KnownCommands
         THEN [returncode |-> 0, stdout |-> <<>>, stderr |-> <<>>]
    ELSE [returncode |-> 127, stdout |-> <<>>, stderr |-> words[1]]

ShellRun(command) == ShellWords(split(command))

\* a command that does not end by itself: cat reads the terminal until end of file
Hangs(command) == split(command) # <<>> /\ split(command)[1] = word_cat

IsName(w) == Len(w) > 0 /\ (\A i \in DOMAIN w : IsWord(w[i])) /\ w[1] \notin Range(Digit)

\* the statement forms of the sources the model analyses
IsDefHeader(w) ==
    /\ Len(w) > 3
    /\ SubSeq(w, Len(w) - 2, Len(w)) = <<"(", ")", ":">>
    /\ IsName(SubSeq(w, 1, Len(w) - 3))

IsClassHeader(w) ==
    /\ Len(w) > 1
    /\ w[Len(w)] = ":"
    /\ IsName(SubSeq(w, 1, Len(w) - 1))

\* the node of one logical line, or "SyntaxError"; block: the statement ends
\* in a colon and its body is the indented block that follows
StatementNode(words) ==
    IF Len(words) = 3 /\ words[1] = word_def /\ IsDefHeader(words[2]) /\ words[3] = word_pass
    THEN [type |-> "FunctionDef", name |-> SubSeq(words[2], 1, Len(words[2]) - 3), block |-> FALSE]
    ELSE IF Len(words) = 2 /\ words[1] = word_def /\ IsDefHeader(words[2])
    THEN [type |-> "FunctionDef", name |-> SubSeq(words[2], 1, Len(words[2]) - 3), block |-> TRUE]
    ELSE IF Len(words) = 3 /\ words[1] = word_class /\ IsClassHeader(words[2]) /\ words[3] = word_pass
    THEN [type |-> "ClassDef", name |-> SubSeq(words[2], 1, Len(words[2]) - 1), block |-> FALSE]
    ELSE IF Len(words) = 2 /\ words[1] = word_class /\ IsClassHeader(words[2])
    THEN [type |-> "ClassDef", name |-> SubSeq(words[2], 1, Len(words[2]) - 1), block |-> TRUE]
    ELSE IF Len(words) = 2 /\ words[1] = word_import /\ IsName(words[2])
    THEN [type |-> "Import", name |-> words[2], block |-> FALSE]
    ELSE IF Len(words) = 4 /\ words[1] = word_from /\ IsName(words[2])
            /\ words[3] = word_import /\ IsName(words[4])
    THEN [type |-> "ImportFrom", name |-> words[2], block |-> FALSE]
    ELSE IF Len(words) = 1 /\ (IsName(words[1]) \/ IsNumber(words[1]))
            /\ words[1] \notin {word_def, word_class, word_import, word_from}
    THEN [type |-> "Expr", name |-> words[1], block |-> FALSE]
    ELSE [type |-> "SyntaxError", name |-> <<>>, block |-> FALSE]

\* the lines of a text: text.split('\n')
RECURSIVE LinesFrom(_, _)
LinesFrom(s, i) ==
    LET e == Skip(s, i, NotNewline)
    IN IF e > Len(s) THEN <<SubSeq(s, i, Len(s))>>
       ELSE <<SubSeq(s, i, e - 1)>> \o LinesFrom(s, e + 1)

split_lines(s) == LinesFrom(s, 1)

IsBlank(c) == c = " "

\* the indentation of a line that is indented with blanks
Indent(line) == Skip(line, 1, IsBlank) - 1

ParseError == [ok |-> FALSE, nodes |-> <<>>]

\* a dedent closes the blocks that are indented deeper than the line
RECURSIVE PopTo(_, _)
PopTo(stack, n) ==
    IF stack[Len(stack)].indent > n THEN PopTo(SubSeq(stack, 1, Len(stack) - 1), n) ELSE stack

\* ast.parse for sources made of the statement forms above: the statements in
\* the order of the text, each with the statement whose body it stands in
\* (parent, 0 for the module), or a syntax error.
\* stack: the open blocks, each with its indentation and the statement that
\* owns it; expect: the statement before opened a block
RECURSIVE ParseFrom(_, _, _, _)
AddNode(node, rest, stack, nodes) ==
    IF node.type = "SyntaxError" THEN ParseError
    ELSE ParseFrom(rest, stack, node.block,
                   Append(nodes, [type |-> node.type, name |-> node.name,
                                  parent |-> stack[Len(stack)].owner]))

AtLevel(line, rest, n, stack, nodes) ==
    IF stack[Len(stack)].indent # n THEN ParseError
    ELSE AddNode(StatementNode(split(line)), rest, stack, nodes)

ParseLine(line, rest, n, stack, expect, nodes) ==
    IF expect
    THEN IF n > stack[Len(stack)].indent
         THEN AddNode(StatementNode(split(line)), rest,
                      Append(stack, [indent |-> n, owner |-> Len(nodes)]), nodes)
         ELSE ParseError
    ELSE IF n > stack[Len(stack)].indent THEN ParseError
    ELSE AtLevel(line, rest, n, PopTo(stack, n), nodes)

ParseFrom(lines, stack, expect, nodes) ==
    IF lines = <<>> THEN (IF expect THEN ParseError ELSE [ok |-> TRUE, nodes |-> nodes])
    ELSE IF split(Head(lines)) = <<>> THEN ParseFrom(Tail(lines), stack, expect, nodes)
    ELSE ParseLine(Head(lines), Tail(lines), Indent(Head(lines)), stack, expect, nodes)

ast_parse(code) ==
    ParseFrom(split_lines(code), <<[indent |-> 0, owner |-> 0]>>, FALSE, <<>>)

\* iter_child_nodes: the statements in the body of statement i, in their order
RECURSIVE ChildrenFrom(_, _, _)
ChildrenFrom(nodes, i, j) ==
    IF j > Len(nodes) THEN <<>>
    ELSE (IF nodes[j].parent = i THEN <<j>> ELSE <<>>) \o ChildrenFrom(nodes, i, j + 1)

\* ast.walk: todo.popleft(), todo.extend(iter_child_nodes(node)), yield node
RECURSIVE Walk(_, _)
Walk(nodes, todo) ==
    IF todo = <<>> THEN <<>>
    ELSE <<nodes[Head(todo)]>>
         \o Walk(nodes, Tail(todo) \o ChildrenFrom(nodes, Head(todo), 1))

\* the statements of the tree in the order of ast.walk(tree)
ast_walk(tree) == Walk(tree.nodes, ChildrenFrom(tree.nodes, 0, 1))

(***************************************************************************)
(* _analyze_code_content                                                   *)
(***************************************************************************)
RECURSIVE NamesOf(_, _)
NamesOf(nodes, type) ==
    IF nodes = <<>> THEN <<>>
    ELSE (IF Head(nodes).type = type THEN <<Head(nodes).name>> ELSE <<>>)
         \o NamesOf(Tail(nodes), type)

\* imports.append(alias.name) / imports.append(f"from {node.module}"), in walk order;
\* AiCode._analyze_code_content has no branch for ast.ImportFrom
RECURSIVE ImportsOf(_)
ImportsOf(nodes) ==
    IF nodes = <<>> THEN <<>>
    ELSE (IF Head(nodes).type = "Import" THEN <<[lit |-> "", val |-> Head(nodes).name]>>
          ELSE IF Head(nodes).type = "ImportFrom" /\ variant = "compact"
               THEN <<[lit |-> "from ", val |-> Head(nodes).name]>>
          ELSE <<>>)
         \o ImportsOf(Tail(nodes))

FirstN(s, n) == SubSeq(s, 1, IF Len(s) < n THEN Len(s) ELSE n)

\* sep.join(names) as the pieces of the line that starts with lit
RECURSIVE JoinNames(_, _, _)
JoinNames(lit, sep, names) ==
    IF names = <<>> THEN <<>>
    ELSE <<[lit |-> lit, val |-> Head(names)]>> \o JoinNames(sep, sep, Tail(names))

RECURSIVE JoinImports(_, _)
JoinImports(lit, imps) ==
    IF imps = <<>> THEN <<>>
    ELSE <<[lit |-> lit, val |-> <<>>], Head(imps)>> \o JoinImports(", ", Tail(imps))

\* the summary with the line count put in front of the try statement
AnalysisOfCounted(code, tree) ==
    Fmt("Lines of code: ", Str(Len(split(code))))
    \o (IF ~tree.ok
        THEN <<[lit |-> "\nSyntax Error: ", val |-> <<>>], [lit |-> "invalid syntax", val |-> <<>>]>>
        ELSE JoinNames("\nFunctions: ", ", ", NamesOf(ast_walk(tree), "FunctionDef"))
             \o JoinNames("\nClasses: ", ", ", NamesOf(ast_walk(tree), "ClassDef"))
             \o JoinImports("\nImports: ", FirstN(ImportsOf(ast_walk(tree)), 5)))

\* the walk over the tree and the lines of the summary, or the diagnostic of
\* the parser (its wording is not modelled)
AnalysisOf(code, tree) ==
    IF ~tree.ok
    THEN <<[lit |-> "Syntax Error: ", val |-> <<>>], [lit |-> "invalid syntax", val |-> <<>>]>>
    ELSE Fmt("Lines of code: ", Str(Len(split(code))))
         \o JoinNames("\nFunctions: ", ", ", NamesOf(ast_walk(tree), "FunctionDef"))
         \o JoinNames("\nClasses: ", ", ", NamesOf(ast_walk(tree), "ClassDef"))
         \o JoinImports("\nImports: ", FirstN(ImportsOf(ast_walk(tree)), 5))

\* fault: what ast.parse raises besides the SyntaxError the text itself causes
analyze_code_content(code, fault) ==
    IF fault \in {"RecursionError", "MemoryError"}
    THEN <<[lit |-> "Analysis Error: ", val |-> <<>>], [lit |-> fault, val |-> <<>>]>>
    ELSE AnalysisOf(code, ast_parse(code))

(***************************************************************************)
(* _execute_tool: dispatch and the catch-all                               *)
(***************************************************************************)
NoExc == "none"

\* the classes derived from Exception among those the tools can raise
ExceptionClasses ==
    {"FileNotFoundError", "PermissionError", "IsADirectoryError", "NotADirectoryError",
     "UnicodeDecodeError", "TimeoutExpired", "RecursionError", "MemoryError"}

\* faults of the underlying operation, chosen by the environment
Faults == {"none", "PermissionError", "UnicodeDecodeError", "TimeoutExpired", "RecursionError"}

Returns(ret, f, eff) == [ret |-> ret, exc |-> NoExc, fs |-> f, effects |-> eff]
Raises(exc, f, eff) == [ret |-> <<>>, exc |-> exc, fs |-> f, effects |-> eff]

Effect(op, arg) == <<[op |-> op, arg |-> arg]>>

\* os.listdir('.'): the entries of the directory, in the order the system gives
RECURSIVE ListDirOf(_)
ListDirOf(S) ==
    IF S = {} THEN <<>>
    ELSE LET x == CHOOSE y \in S : TRUE IN <<x>> \o ListDirOf(S \ {x})

ListDir(f) == ListDirOf(DOMAIN f)

\* the else branch reporting the name in lower case
UnknownToolLowered(tool_name, f) == Returns(Fmt("Unknown tool: ", lower(tool_name)), f, <<>>)

\* the else branch: return f"Unknown tool: {tool_name}"
UnknownTool(tool_name, f) == Returns(Fmt("Unknown tool: ", tool_name), f, <<>>)

\* f.readline() in place of f.read()
ReadFileFirstLine(path, f, fault) ==
    IF path = <<>> THEN Returns(Fmt("Error: path parameter required", <<>>), f, <<>>)
    ELSE IF fault \in {"PermissionError", "UnicodeDecodeError"}
         THEN Raises(fault, f, Effect("open_r", path))
    ELSE IF path \notin DOMAIN f
         THEN Raises("FileNotFoundError", f, Effect("open_r", path))
    ELSE Returns(Fmt("", SubSeq(f[path], 1, Min(Len(f[path]), Skip(f[path], 1, NotNewline)))),
                 f, Effect("open_r", path))

\* open(path, 'r') and f.read(): a file holds the text that text mode reads from it
ReadFile(path, f, fault) ==
    IF path = <<>> THEN Returns(Fmt("Error: path parameter required", <<>>), f, <<>>)
    ELSE IF fault \in {"PermissionError", "UnicodeDecodeError"}
         THEN Raises(fault, f, Effect("open_r", path))
    ELSE IF path \notin DOMAIN f
         THEN Raises("FileNotFoundError", f, Effect("open_r", path))
    ELSE Returns(Fmt("", f[path]), f, Effect("open_r", path))

WriteFile(path, content, f, fault) ==
    IF path = <<>> THEN Returns(Fmt("Error: path parameter required", <<>>), f, <<>>)
    ELSE IF fault = "PermissionError"
         THEN Raises(fault, f, Effect("open_w", path))
    ELSE Returns(Fmt("File written: ", path), Put(f, path, content), Effect("open_w", path))

CommandReport(result) ==
    Fmt("Exit code: ", Str(result.returncode))
    \o Fmt("\nOutput: ", result.stdout)
    \o Fmt("\nError: ", result.stderr)

\* the branch without "if not command"
ExecuteCommandUnchecked(command, f, fault) ==
    IF fault = "TimeoutExpired"
    THEN Raises(fault, f, Effect("run", command))
    ELSE Returns(CommandReport(ShellRun(command)), f, Effect("run", command))

ExecuteCommand(command, f, fault) ==
    IF command = <<>> THEN Returns(Fmt("Error: command parameter required", <<>>), f, <<>>)
    ELSE IF fault = "TimeoutExpired"
         THEN Raises(fault, f, Effect("run", command))
    ELSE Returns(CommandReport(ShellRun(command)), f, Effect("run", command))

AnalyzeCode(code, f, fault) ==
    IF code = <<>> THEN Returns(Fmt("Error: code parameter required", <<>>), f, <<>>)
    ELSE Returns(analyze_code_content(code, fault), f, <<>>)

Listing(files) == IF files = <<>> THEN Fmt("", <<>>) ELSE JoinNames("", "\n", files)

ListFiles(path, f, fault) ==
    IF fault = "PermissionError" THEN Raises(fault, f, Effect("listdir", path))
    ELSE IF path = dot
         THEN Returns(Listing(ListDir(f)), f, Effect("listdir", path))
    ELSE IF path \in DOMAIN f
         THEN Raises("NotADirectoryError", f, Effect("listdir", path))
    ELSE Raises("FileNotFoundError", f, Effect("listdir", path))

\* the body of the try statement; AiCode._execute_tool has no list_files branch
ToolBody(tool_name, args, f, fault) ==
    IF tool_name = read_file
    THEN ReadFile(Get(args, key_path, <<>>), f, fault)
    ELSE IF tool_name = write_file
    THEN WriteFile(Get(args, key_path, <<>>), Get(args, key_content, <<>>), f, fault)
    ELSE IF tool_name = execute_command
    THEN ExecuteCommand(Get(args, key_command, <<>>), f, fault)
    ELSE IF tool_name = analyze_code
    THEN AnalyzeCode(Get(args, key_code, <<>>), f, fault)
    ELSE IF tool_name = list_files /\ variant = "compact"
    THEN ListFiles(Get(args, key_path, dot), f, fault)
    ELSE UnknownTool(tool_name, f)

\* except OSError as e
CatchesOSError(exc) ==
    exc \in {"FileNotFoundError", "PermissionError", "IsADirectoryError", "NotADirectoryError"}

\* except Exception as e
Catches(exc) == exc \in ExceptionClasses

\* _execute_tool(tool_name, args_str) run on the files f under the fault
TryExcept(body) ==
    IF body.exc # NoExc /\ Catches(body.exc)
    THEN [body EXCEPT !.ret = <<[lit |-> "Tool error: ", val |-> <<>>],
                                [lit |-> body.exc, val |-> <<>>]>>,
                      !.exc = NoExc]
    ELSE body

execute_tool(tool_name, args_str, f, fault) ==
    TryExcept(ToolBody(tool_name, ParseArgs(args_str), f, fault))

(***************************************************************************)
(* _process_conversation: the request                                      *)
(***************************************************************************)
\* _get_system_prompt without the slice: every context line goes into the prompt
get_system_prompt_unsliced(ctx) ==
    IF ctx # <<>>
    THEN Fmt("base_prompt", <<>>)
         \o <<[lit |-> "\n\nProject context:\n", val |-> <<>>]>>
         \o JoinNames("", "\n", ctx)
    ELSE Fmt("base_prompt", <<>>)

\* _get_system_prompt: base_prompt, and the first 10 context lines under a heading
get_system_prompt(ctx) ==
    IF ctx # <<>>
    THEN Fmt("base_prompt", <<>>)
         \o <<[lit |-> "\n\nProject context:\n", val |-> <<>>]>>
         \o JoinNames("", "\n", FirstN(ctx, 10))
    ELSE Fmt("base_prompt", <<>>)

Message(role, content) == [role |-> role, content |-> content]

\* list.append(x) where the code inserts: x goes behind the last element
InsertAtEnd(list, x) == Append(list, x)

\* list.insert(-1, x): x goes in front of the last element
InsertBeforeLast(list, x) ==
    SubSeq(list, 1, Len(list) - 1) \o <<x>> \o <<list[Len(list)]>>

\* history[-3:]
LastThree(history) ==
    SubSeq(history, IF Len(history) > 3 THEN Len(history) - 2 ELSE 1, Len(history))

\* the loop "for exchange in recent"
RECURSIVE AddRecent(_, _)
AddRecent(msgs, recent) ==
    IF recent = <<>> THEN msgs
    ELSE AddRecent(InsertBeforeLast(InsertBeforeLast(msgs,
                        Message("user", Fmt("", Head(recent).user))),
                        Message("assistant", Fmt("", Head(recent).assistant))),
                   Tail(recent))

\* the message list of _process_conversation
BuildMessages(ctx, history, text) ==
    LET initial == <<Message("system", get_system_prompt(ctx)),
                     Message("user", Fmt("", text))>>
    IN IF history # <<>> THEN AddRecent(initial, LastThree(history)) ELSE initial

(***************************************************************************)
(* _send_to_model: what the code makes of the endpoint's answer            *)
(***************************************************************************)
\* the reply texts of the endpoint: here one that itself holds a TOOL: line
Replies == { <<"T","O","O","L",":"," ","w","r","i","t","e","_","f","i","l","e"," ","p","a","t","h","=","c">> }

\* the answers of the endpoint: status, transport failure, and the shape of a 200 body
Outcomes ==
    [kind : {"http_error", "timeout", "connection_error", "not_json", "no_choices",
             "empty_choices", "no_message", "no_content"},
     content : {<<>>}]
    \cup [kind : {"ok"}, content : Replies \cup {<<>>}]

\* what response.json() raises on a body that is not JSON: requests' own
\* JSONDecodeError (a RequestException) from 2.27 on, a plain ValueError before
JsonErrors == {"requests.JSONDecodeError", "ValueError"}

\* except requests.exceptions.RequestException
RequestExceptions == {"Timeout", "ConnectionError", "requests.JSONDecodeError"}

None == [none |-> TRUE, text |-> <<>>]
Text(t) == [none |-> FALSE, text |-> t]

\* the try block: the returned value or the raised exception, and what was printed
SendBody(outcome, json_exc) ==
    IF outcome.kind = "timeout" THEN [ret |-> None, exc |-> "Timeout", printed |-> <<>>]
    ELSE IF outcome.kind = "connection_error"
         THEN [ret |-> None, exc |-> "ConnectionError", printed |-> <<>>]
    ELSE IF outcome.kind = "http_error"
         THEN [ret |-> None, exc |-> NoExc, printed |-> <<"Model error: HTTP">>]
    ELSE IF outcome.kind = "not_json"
         THEN [ret |-> None, exc |-> json_exc, printed |-> <<>>]
    ELSE IF outcome.kind \in {"no_choices", "empty_choices"}
         THEN [ret |-> None, exc |-> NoExc, printed |-> <<>>]
    ELSE IF outcome.kind \in {"no_message", "no_content"}
         THEN [ret |-> None, exc |-> "KeyError", printed |-> <<>>]
    ELSE [ret |-> Text(outcome.content), exc |-> NoExc, printed |-> <<>>]

SendExcept(body) ==
    IF body.exc \in RequestExceptions
    THEN [ret |-> None, exc |-> NoExc,
          printed |-> <<"Connection error", "Check if your local model server is running">>]
    ELSE body

send_to_model(outcome, json_exc) == SendExcept(SendBody(outcome, json_exc))

\* if response is not None:
TruthyNotNone(response) == ~response.none

\* if response:
Truthy(response) == ~response.none /\ response.text # <<>>

\* an entry of the history (its timestamp, which nothing reads, is left out)
Exchange(user, assistant) == [user |-> user, assistant |-> assistant]

\* the append done without the test of the response
StoreAlways(history, text, response) == Append(history, Exchange(text, response.text))

\* the exchange put in front of the history instead of behind it
StoreInFront(history, text, response) ==
    IF Truthy(response) THEN <<Exchange(text, response.text)>> \o history ELSE history

\* the history after the branch on the response
StoreInHistory(history, text, response) ==
    IF Truthy(response) THEN Append(history, Exchange(text, response.text)) ELSE history

(***************************************************************************)
(* The model table, the context document and the session store             *)
(***************************************************************************)
word_default == <<"d","e","f","a","u","l","t">>
word_ollama == <<"o","l","l","a","m","a">>
word_lmstudio == <<"l","m","s","t","u","d","i","o">>

\* the [models] section that _load_config creates and reads back
Models0 ==
    [n \in {word_default, word_ollama, word_lmstudio} |->
        IF n = word_lmstudio
        THEN Fmt("http://localhost:1234/v1/chat/completions", <<>>)
        ELSE Fmt("http://localhost:11434/v1/chat/completions", <<>>)]

NoEndpoint == <<>>

\* configparser compares option names through optionxform, which is str.lower
optionxform(name) == lower(name)

\* model in self.config['models']
HasOption(table, name) == optionxform(name) \in DOMAIN table

\* self.config['models'][model] = value
SetOption(table, name, value) == Put(table, optionxform(name), value)

\* self.config['models'].get(self.current_model, self.config['models']['default'])
EndpointOf(table, name) ==
    IF HasOption(table, name) THEN table[optionxform(name)] ELSE table[word_default]

\* _switch_model: a name that is no option is added as its own endpoint
switch_model(table, model) ==
    IF HasOption(table, model)
    THEN [models |-> table, current_model |-> model]
    ELSE [models |-> SetOption(table, model, Fmt("", model)), current_model |-> model]

\* aicode.md: absent, present but not readable, or a text
Missing == [state |-> "missing", text |-> <<>>]
Unreadable == [state |-> "unreadable", text |-> <<>>]
File(text) == [state |-> "file", text |-> text]

\* what _edit_context writes when aicode.md does not exist
ContextTemplate ==
    <<"#"," ","A","i","C","o","d","e"," ","C","o","n","t","e","x","t","\n","\n",
      "A","d","d"," ","y","o","u","r"," ","p","r","o","j","e","c","t"," ",
      "c","o","n","t","e","x","t"," ","h","e","r","e",".",".",".","\n">>

\* _edit_context up to the wait for Enter
CreateIfMissing(file) == IF file.state = "missing" THEN File(ContextTemplate) ELSE file

\* _load_context: the new value of self.context
load_context(ctx, file) ==
    IF file.state = "file" THEN split_lines(file.text) ELSE ctx

\* what _load_context prints
load_context_printed(file) ==
    IF file.state = "file" THEN <<"Loaded context from aicode.md">>
    ELSE IF file.state = "unreadable" THEN <<"Warning: Could not load context">>
    ELSE <<>>

\* json.dump of a str: the characters written between the quotes
RECURSIVE json_escape(_)
json_escape(s) ==
    IF s = <<>> THEN <<>>
    ELSE (IF Head(s) = "\"" THEN <<"\\", "\"">>
          ELSE IF Head(s) = "\\" THEN <<"\\", "\\">>
          ELSE IF Head(s) = "\n" THEN <<"\\", "n">>
          ELSE <<Head(s)>>) \o json_escape(Tail(s))

\* json.load of the characters between the quotes
RECURSIVE json_unescape(_)
json_unescape(s) ==
    IF s = <<>> THEN <<>>
    ELSE IF Head(s) = "\\" /\ Len(s) >= 2
         THEN (IF s[2] = "n" THEN <<"\n">> ELSE <<s[2]>>) \o json_unescape(SubSeq(s, 3, Len(s)))
    ELSE <<Head(s)>> \o json_unescape(Tail(s))

NoSessions == EmptyArgs

\* session_data holding the history without its last exchange
session_data_truncated(history, ctx, model) ==
    [conversation_history |->
        [i \in 1..(Len(history) - 1) |-> [user |-> json_escape(history[i].user),
                                          assistant |-> json_escape(history[i].assistant)]],
     context |-> [i \in DOMAIN ctx |-> json_escape(ctx[i])],
     current_model |-> json_escape(model)]

\* session_data as json.dump writes it (theme and timestamp, which no claim
\* reads, are left out)
session_data(history, ctx, model) ==
    [conversation_history |->
        [i \in DOMAIN history |-> [user |-> json_escape(history[i].user),
                                   assistant |-> json_escape(history[i].assistant)]],
     context |-> [i \in DOMAIN ctx |-> json_escape(ctx[i])],
     current_model |-> json_escape(model)]

\* what _load_session assigns from the entry json.load returns
loaded_session(data) ==
    [conversation_history |->
        [i \in DOMAIN data.conversation_history |->
            Exchange(json_unescape(data.conversation_history[i].user),
                     json_unescape(data.conversation_history[i].assistant))],
     context |-> [i \in DOMAIN data.context |-> json_unescape(data.context[i])],
     current_model |-> json_unescape(data.current_model)]

(***************************************************************************)
(* Inputs                                                                  *)
(***************************************************************************)
\* what the user types in a session
SessionInputs ==
    { <<>>,
      <<"h","i">>,
      <<"y","o"," ">>,
      <<"T","O","O","L",":">>,
      <<"t","o","o","l",":"," ","r","e","a","d","_","f","i","l","e"," ","p","a","t","h","=","a">>,
      <<"T","O","O","L",":"," ","w","r","i","t","e","_","f","i","l","e"," ","p","a","t","h","=","b"," ","c","o","n","t","e","n","t","=","y">>,
      <<"T","O","O","L",":"," ","e","x","e","c","u","t","e","_","c","o","m","m","a","n","d"," ","c","o","m","m","a","n","d","=","c","a","t">>,
      <<"/","c","l","e","a","r">>,
      <<"/","e","x","i","t">>,
      <<"/","B","o","g","u","s"," ","x">> }

\* tool names and argument texts of the tool turns explored on their own
ToolNames == {read_file, write_file, execute_command, analyze_code, list_files,
              <<"R","E","A","D","_","F","I","L","E">>, <<"R","e","a","d","_","F","i","l","e">>, <<"f","r","o","b">>}

ArgTexts ==
    { <<>>,
      <<"p","a","t","h","=","a">>,
      <<"p","a","t","h","=","'","a","'">>,
      <<"p","a","t","h","=","z","z">>,
      <<"c","o","n","t","e","n","t","=","y"," ","p","a","t","h","=","b">>,
      <<"c","o","m","m","a","n","d","=","\"","e","x","i","t"," ","7","\"">>,
      <<"c","o","m","m","a","n","d","=","'","e","x","i","t"," ","7","'">>,
      <<"c","o","m","m","a","n","d","=","e","x","i","t">>,
      <<"c","o","m","m","a","n","d","=","t","r","u","e">>,
      <<"c","o","m","m","a","n","d","=","c","a","t">>,
      <<"p","a","t","h","=","z","z"," ","x"," ","p","a","t","h","=","a">>,
      <<"p","a","t","h","=">>,
      <<"c","o","m","m","a","n","d","=","\"","\"">>,
      <<"=","z"," ","p","a","t","h","=","a","=","b">>,
      <<"c","o","d","e","=","x">>,
      <<"x">> }

ToolLine(name, args) == TOOL_COLON \o <<" ">> \o name \o <<" ">> \o args

FirstLines == { ToolLine(read_file, <<"p","a","t","h","=","z","z">>), TOOL_COLON, TOOL_COLON \o <<" ">>, TOOL_COLON \o <<" ">> \o read_file,
                ToolLine(<<"f","r","o","b">>, <<"x">>), ToolLine(write_file, <<"c","o","n","t","e","n","t","=","y"," ","p","a","t","h","=","b">>),
                ToolLine(execute_command, <<"c","o","m","m","a","n","d","=","\"","e","x","i","t"," ","7","\"">>) }

SecondLines == { <<"p","a","t","h","=","a">>, read_file \o <<" ">> \o <<"p","a","t","h","=","a">>, ToolLine(read_file, <<"p","a","t","h","=","a">>),
                 ToolLine(read_file, <<"p","a","t","h","=","b">>), <<"h","i">> }

ToolInputs ==
    { ToolLine(n, a) : n \in ToolNames, a \in ArgTexts }
    \cup { l1 \o <<"\n">> \o l2 : l1 \in FirstLines, l2 \in SecondLines }
    \cup { <<"t","o","o","l",":"," ","r","e","a","d","_","f","i","l","e"," ","p","a","t","h","=","a">>, TOOL_COLON, <<"T","O","O","L",":","l","i","s","t","_","f","i","l","e","s">> }

\* the two programs of the repository that hold the core
Variants == {"compact", "single"}

Files0 == [p \in {<<"a">>} |-> <<"x","\n","y">>]

\* the lines of the analysed sources
SourceLines ==
    { <<"d","e","f"," ","f","(",")",":"," ","p","a","s","s">>,
      <<" ","d","e","f"," ","f","(",")",":"," ","p","a","s","s">>,
      <<"d","e","f"," ","g","(",")",":"," ","p","a","s","s">>,
      <<" ","d","e","f"," ","g","(",")",":">>,
      <<" "," ","c","l","a","s","s"," ","D",":"," ","p","a","s","s">>,
      <<"c","l","a","s","s"," ","C",":">>,
      <<"i","m","p","o","r","t"," ","m">>,
      <<"f","r","o","m"," ","n"," ","i","m","p","o","r","t"," ","x">>,
      <<"d","e","f"," ","f","(",":">> }

RECURSIVE TextsOf(_)
TextsOf(k) ==
    IF k = 1 THEN SourceLines
    ELSE { t \o <<"\n">> \o l : t \in TextsOf(k - 1), l \in SourceLines }

Sources == UNION { TextsOf(k) : k \in 1..MaxLines }

\* aicode.md as the program finds it when it starts: absent, two lines, twelve lines
doc_two == <<"l","1","\n","l","2">>
doc_twelve ==
    <<"1","\n","2","\n","3","\n","4","\n","5","\n","6","\n","7","\n","8","\n","9","\n",
      "a","\n","b","\n","c">>

ContextFiles0 == {Missing, File(doc_two), File(doc_twelve)}

(***************************************************************************)
(* run(): one action per branch of the loop body                           *)
(***************************************************************************)
slash == <<"/">>
cmd_exit == <<"/","e","x","i","t">>
cmd_quit == <<"/","q","u","i","t">>
cmd_clear == <<"/","c","l","e","a","r">>

NoOutcome == [kind |-> "none", content |-> <<>>]
NoAnalysis == [code |-> <<>>, output |-> <<>>]
cmd_analyze == <<"/","a","n","a","l","y","z","e">>
cmd_switch == <<"/","s","w","i","t","c","h">>
cmd_edit_context == <<"/","e","d","i","t","-","c","o","n","t","e","x","t">>
cmd_save_session == <<"/","s","a","v","e","-","s","e","s","s","i","o","n">>
cmd_load_session == <<"/","l","o","a","d","-","s","e","s","s","i","o","n">>

\* the test without upper(): only the upper-case marker is seen
ToolGateCaseSensitive(text) == Contains(text, TOOL_COLON)

\* "TOOL:" in user_input.upper()
ToolGate(text) == Contains(upper(text), TOOL_COLON)

\* a new turn starts: the locals of the previous turn are gone
NewTurn(text) ==
    /\ user_input' = text
    /\ results' = <<>>
    /\ analysis' = NoAnalysis
    /\ last_outcome' = NoOutcome

\* if not user_input: continue
EmptyInput(text) ==
    /\ pc = "Idle"
    /\ text = <<>>
    /\ NewTurn(text)
    /\ sent' = 0
    /\ endpoint' = NoEndpoint
    /\ console' = <<>>
    /\ messages' = <<>>
    /\ UNCHANGED <<models, context_file, sessions_file, saved, variant, running, pc, conversation_history, context, current_model, matches, fs>>

\* except (EOFError, KeyboardInterrupt) at the prompt
EndOfInput ==
    /\ pc = "Idle"
    /\ pc' = "Exited"
    /\ console' = <<"Goodbye!">>
    /\ UNCHANGED <<endpoint, models, context_file, sessions_file, saved, variant, running, analysis, user_input, conversation_history, context, current_model, messages,
                   sent, matches, results, fs, last_outcome>>

\* a clear that keeps the newest exchange
ClearedButLast(history) == IF history = <<>> THEN <<>> ELSE <<history[Len(history)]>>

\* /clear: self.conversation_history = []
ClearedHistory(history) == <<>>

\* _handle_command
HandleCommand(text) ==
    \E cmd \in {IF text = <<>> THEN <<>> ELSE lower(split(text)[1])} :
       /\ pc = "Idle"
       /\ text # <<>>
       /\ StartsWith(text, slash)
       /\ cmd \notin {cmd_analyze, cmd_switch, cmd_edit_context, cmd_save_session, cmd_load_session}
       /\ NewTurn(text)
       /\ sent' = 0
       /\ endpoint' = NoEndpoint
       /\ IF cmd \in {cmd_exit, cmd_quit}
          THEN /\ pc' = "Exited"
               /\ console' = <<>>
               /\ UNCHANGED conversation_history
          ELSE IF cmd = cmd_clear
          THEN /\ pc' = "Idle"
               /\ conversation_history' = ClearedHistory(conversation_history)
               /\ console' = <<"Conversation history cleared">>
          ELSE /\ pc' = "Idle"
               /\ console' = <<"Unknown command", "Type '/help' for available commands">>
               /\ UNCHANGED conversation_history
       /\ messages' = <<>>
       /\ UNCHANGED <<models, context_file, sessions_file, saved, variant, running, context, current_model, matches, fs>>

\* _process_conversation, the branch taken when "TOOL:" is in user_input.upper():
\* _execute_tool_request up to the loop over the matches
ToolRequest(text) ==
    /\ pc = "Idle"
    /\ text # <<>>
    /\ ~StartsWith(text, slash)
    /\ ToolGate(text)
    /\ NewTurn(text)
    /\ sent' = 0
    /\ endpoint' = NoEndpoint
    /\ matches' = FindAll(text)
    /\ pc' = "Tools"
    /\ console' = <<>>
    /\ messages' = <<>>
    /\ UNCHANGED <<models, context_file, sessions_file, saved, variant, running, conversation_history, context, current_model, fs>>

\* the command that an invocation hands to subprocess.run, <<>> when it starts none
CommandOf(m) ==
    IF m.name = execute_command THEN Get(ParseArgs(m.args), key_command, <<>>) ELSE <<>>

\* the for loop stops at the first failed invocation
StopOnError(ms, run) ==
    IF run.ret # <<>> /\ run.ret[1].lit \in {"Error: path parameter required",
                                              "Error: command parameter required",
                                              "Error: code parameter required",
                                              "Unknown tool: ", "Tool error: "}
    THEN <<>> ELSE Tail(ms)

\* the for loop goes on to the next match whatever the result was
AfterResult(ms, run) == Tail(ms)

\* subprocess.run without timeout=: the call ends only when the command ends
EndsWithoutTimeout(command, fault) == fault # "TimeoutExpired" /\ ~Hangs(command)

\* subprocess.run(..., timeout=30): the call ends when the command ends or
\* when the 30 seconds are over
Ends(command, fault) == fault = "TimeoutExpired" \/ ~Hangs(command)

\* _execute_tool has returned: the result is printed, the loop goes on
Iteration(fault) ==
    \E m \in {Head(matches)} :
      \E run \in {execute_tool(m.name, m.args, fs, fault)} :
          /\ results' = Append(results,
                   [match |-> m, args |-> ParseArgs(m.args),
                    ret |-> run.ret, exc |-> run.exc, fault |-> fault,
                    before |-> fs, after |-> run.fs, effects |-> run.effects])
          /\ fs' = run.fs
          /\ IF run.exc = NoExc
             THEN /\ pc' = "Tools"
                  /\ matches' = AfterResult(matches, run)
             ELSE /\ pc' = "Crashed"
                  /\ matches' = <<>>

\* one iteration of "for tool_name, args_str in matches" that starts no process
ToolStep(fault) ==
    /\ pc = "Tools"
    /\ matches # <<>>
    /\ CommandOf(Head(matches)) = <<>>
    /\ Iteration(fault)
    /\ UNCHANGED <<endpoint, models, context_file, sessions_file, saved, variant, running, analysis, user_input, conversation_history, context, current_model, messages,
                   sent, console, last_outcome>>

\* an iteration reaches subprocess.run: the shell is started and run() waits for it
CommandStart ==
    /\ pc = "Tools"
    /\ matches # <<>>
    /\ CommandOf(Head(matches)) # <<>>
    /\ pc' = "Running"
    /\ running' = CommandOf(Head(matches))
    /\ UNCHANGED <<endpoint, models, context_file, sessions_file, saved, variant, analysis, user_input, conversation_history, context, current_model, messages,
                   sent, console, matches, results, fs, last_outcome>>

\* subprocess.run returns or raises, and the iteration ends
CommandEnd(fault) ==
    /\ pc = "Running"
    /\ Ends(running, fault)
    /\ Iteration(fault)
    /\ running' = <<>>
    /\ UNCHANGED <<endpoint, models, context_file, sessions_file, saved, variant, analysis, user_input, conversation_history, context, current_model, messages,
                   sent, console, last_outcome>>

\* the loop is over: _process_conversation returns to run()
ToolDone ==
    /\ pc = "Tools"
    /\ matches = <<>>
    /\ pc' = "Idle"
    /\ UNCHANGED <<endpoint, models, context_file, sessions_file, saved, variant, running, analysis, user_input, conversation_history, context, current_model, messages,
                   sent, console, matches, results, fs, last_outcome>>

\* _process_conversation without "TOOL:": build the messages and post them
Converse(text) ==
    /\ pc = "Idle"
    /\ text # <<>>
    /\ ~StartsWith(text, slash)
    /\ ~ToolGate(text)
    /\ Len(conversation_history) <= MaxHistory
    /\ NewTurn(text)
    /\ messages' = BuildMessages(context, conversation_history, text)
    /\ sent' = 1
    /\ endpoint' = EndpointOf(models, current_model)
    /\ pc' = "AwaitingResponse"
    /\ console' = <<>>
    /\ UNCHANGED <<models, context_file, sessions_file, saved, variant, running, conversation_history, context, current_model, matches, fs>>

\* the rest of _send_to_model and of _process_conversation once the endpoint has answered
Respond(outcome, json_exc) ==
    /\ pc = "AwaitingResponse"
    /\ last_outcome' = outcome
    /\ \E r \in {send_to_model(outcome, json_exc)} :
          IF r.exc # NoExc
          THEN /\ pc' = "Crashed"
               /\ console' = r.printed \o <<"Error: ", r.exc>>
               /\ UNCHANGED conversation_history
          ELSE /\ pc' = "Idle"
               /\ conversation_history' = StoreInHistory(conversation_history, user_input, r.ret)
               /\ console' = r.printed \o
                     (IF Truthy(r.ret) THEN <<"Response">>
                      ELSE <<"Error: Could not get response from model">>)
    /\ UNCHANGED <<endpoint, models, context_file, sessions_file, saved, variant, running, analysis, user_input, context, current_model, messages, sent, matches, results, fs>>

\* _analyze_file that also files the analysis as an exchange of the conversation
AnalyzeFileRecorded(path, fault) ==
    /\ pc = "Idle"
    /\ user_input' = cmd_analyze \o <<" ">> \o path
    /\ results' = <<>>
    /\ last_outcome' = NoOutcome
    /\ analysis' = IF path \in DOMAIN fs
                   THEN [code |-> fs[path], output |-> analyze_code_content(fs[path], fault)]
                   ELSE [code |-> <<>>,
                         output |-> <<[lit |-> "Error analyzing file: ", val |-> <<>>]>>]
    /\ conversation_history' = Append(conversation_history, Exchange(path, <<>>))
    /\ sent' = 0
    /\ endpoint' = NoEndpoint
    /\ console' = <<>>
    /\ messages' = <<>>
    /\ UNCHANGED <<models, context_file, sessions_file, saved, variant, running, pc, context, current_model, matches, fs>>

\* /analyze <file>: _analyze_file reads the file and prints its analysis
AnalyzeFile(path, fault) ==
    /\ pc = "Idle"
    /\ user_input' = cmd_analyze \o <<" ">> \o path
    /\ results' = <<>>
    /\ last_outcome' = NoOutcome
    /\ analysis' = IF path \in DOMAIN fs
                   THEN [code |-> fs[path], output |-> analyze_code_content(fs[path], fault)]
                   ELSE [code |-> <<>>,
                         output |-> <<[lit |-> "Error analyzing file: ", val |-> <<>>]>>]
    /\ sent' = 0
    /\ endpoint' = NoEndpoint
    /\ console' = <<>>
    /\ messages' = <<>>
    /\ UNCHANGED <<models, context_file, sessions_file, saved, variant, running, pc, conversation_history, context, current_model, matches, fs>>

\* /switch <model>: _switch_model on the argument, or on the name asked for
\* at a prompt when the command has none
SwitchModel(text, asked) ==
    \E parts \in {split(text)} :
      \E model \in {IF Len(parts) > 1 THEN parts[2] ELSE asked} :
        /\ pc = "Idle"
        /\ parts # <<>>
        /\ lower(parts[1]) = cmd_switch
        /\ NewTurn(text)
        /\ sent' = 0
        /\ endpoint' = NoEndpoint
        /\ messages' = <<>>
        /\ models' = switch_model(models, model).models
        /\ current_model' = switch_model(models, model).current_model
        /\ console' = <<IF HasOption(models, model) THEN "Switched to model"
                        ELSE "Added and switched to custom endpoint">>
        /\ UNCHANGED <<variant, pc, running, conversation_history, context, matches, fs,
                       context_file, sessions_file, saved>>

\* the user's editor leaves aicode.md as it is
Keep == [state |-> "keep", text |-> <<>>]

\* aicode.md when the user presses Enter
Edited(file, edit) == IF edit = Keep THEN file ELSE edit

\* /edit-context: _edit_context creates aicode.md when it is absent, waits
\* while the user edits it, and reloads the context
EditContext(text, edit) ==
    \E parts \in {split(text)} :
      \E file \in {Edited(CreateIfMissing(context_file), edit)} :
        /\ pc = "Idle"
        /\ parts # <<>>
        /\ lower(parts[1]) = cmd_edit_context
        /\ NewTurn(text)
        /\ sent' = 0
        /\ endpoint' = NoEndpoint
        /\ messages' = <<>>
        /\ context_file' = file
        /\ context' = load_context(context, file)
        /\ console' = (IF context_file.state = "missing"
                       THEN <<"Creating new aicode.md file">> ELSE <<>>)
                      \o <<"Edit aicode.md in your preferred editor, then press Enter">>
                      \o load_context_printed(file)
        /\ UNCHANGED <<variant, pc, running, conversation_history, current_model, models,
                       matches, fs, sessions_file, saved>>

\* json.load of sessions.json: the entries under their decoded names
json_load(file) ==
    [n \in {json_unescape(k) : k \in DOMAIN file} |->
        file[CHOOSE k \in DOMAIN file : json_unescape(k) = n]]

\* json.dump of all_sessions: the entries under their encoded names
json_dump(all_sessions) ==
    [k \in {json_escape(n) : n \in DOMAIN all_sessions} |->
        all_sessions[CHOOSE n \in DOMAIN all_sessions : json_escape(n) = k]]

\* /save-session [name]: _save_session; without a name the session is saved
\* under a name made from the clock
SaveSession(text, stamp, fault) ==
    \E parts \in {split(text)} :
      \E name \in {IF Len(parts) > 1 THEN parts[2] ELSE stamp} :
        /\ pc = "Idle"
        /\ parts # <<>>
        /\ lower(parts[1]) = cmd_save_session
        /\ NewTurn(text)
        /\ sent' = 0
        /\ endpoint' = NoEndpoint
        /\ messages' = <<>>
        /\ IF fault = "none"
           THEN /\ sessions_file' =
                     json_dump(Put(json_load(sessions_file), name,
                                   session_data(conversation_history, context, current_model)))
                /\ saved' = Put(saved, name, [conversation_history |-> conversation_history,
                                               context |-> context,
                                               current_model |-> current_model])
                /\ console' = <<"Session saved as">>
           ELSE /\ console' = <<"Error saving session">>
                /\ UNCHANGED <<sessions_file, saved>>
        /\ UNCHANGED <<variant, pc, running, conversation_history, context, current_model,
                       models, matches, fs, context_file>>

\* /load-session [name]: _load_session, or _list_sessions without a name
LoadSession(text, fault) ==
    \E parts \in {split(text)} :
        /\ pc = "Idle"
        /\ parts # <<>>
        /\ lower(parts[1]) = cmd_load_session
        /\ NewTurn(text)
        /\ sent' = 0
        /\ endpoint' = NoEndpoint
        /\ messages' = <<>>
        /\ IF Len(parts) > 1 /\ fault = "none" /\ sessions_file # NoSessions
              /\ parts[2] \in DOMAIN json_load(sessions_file)
           THEN \E data \in {loaded_session(json_load(sessions_file)[parts[2]])} :
                  /\ conversation_history' = data.conversation_history
                  /\ context' = data.context
                  /\ current_model' = data.current_model
                  /\ console' = <<"Session loaded">>
           ELSE /\ console' = <<IF Len(parts) = 1 THEN "Saved sessions"
                                ELSE IF sessions_file = NoSessions
                                THEN "No saved sessions found"
                                ELSE IF fault # "none" THEN "Error loading session"
                                ELSE "Session not found">>
                /\ UNCHANGED <<conversation_history, context, current_model>>
        /\ UNCHANGED <<variant, pc, running, models, matches, fs, context_file, sessions_file, saved>>

\* the process has ended and the program is started again in the same
\* directory: __init__ reads config.ini and aicode.md, nothing else is kept
Restart ==
    /\ pc \in {"Exited", "Crashed"}
    /\ pc' = "Idle"
    /\ NewTurn(<<>>)
    /\ sent' = 0
    /\ endpoint' = NoEndpoint
    /\ messages' = <<>>
    /\ console' = <<>>
    /\ matches' = <<>>
    /\ running' = <<>>
    /\ conversation_history' = <<>>
    /\ context' = load_context(<<>>, context_file)
    /\ current_model' = word_default
    /\ models' = Models0
    /\ UNCHANGED <<variant, fs, context_file, sessions_file, saved>>

Init ==
    /\ variant \in Variants
    /\ pc = "Idle"
    /\ user_input = <<>>
    /\ conversation_history = <<>>
    /\ context_file \in ContextFiles0
    /\ context = load_context(<<>>, context_file)
    /\ current_model = word_default
    /\ messages = <<>>
    /\ sent = 0
    /\ console = <<>>
    /\ matches = <<>>
    /\ running = <<>>
    /\ results = <<>>
    /\ analysis = NoAnalysis
    /\ fs = Files0
    /\ last_outcome = NoOutcome
    /\ models = Models0
    /\ endpoint = NoEndpoint
    /\ sessions_file = NoSessions
    /\ saved = NoSessions

\* user_input = toolkit_prompt(...).strip()
Prompted == {strip(raw) : raw \in SessionInputs}

Next ==
    \/ \E text \in Prompted : EmptyInput(text)
    \/ EndOfInput
    \/ \E text \in Prompted : HandleCommand(text)
    \/ \E text \in Prompted : ToolRequest(text)
    \/ \E fault \in Faults : ToolStep(fault)
    \/ CommandStart
    \/ \E fault \in Faults : CommandEnd(fault)
    \/ ToolDone
    \/ AnalyzeFile(<<"a">>, "none")
    \/ \E text \in Prompted : Converse(text)
    \/ \E outcome \in Outcomes, json_exc \in JsonErrors : Respond(outcome, json_exc)

Spec == Init /\ [][Next]_vars

(***************************************************************************)
(* Tool turns on their own: the input and the files are chosen at the      *)
(* start, then _process_conversation runs on that input                    *)
(***************************************************************************)
ToolInit ==
    /\ variant \in Variants
    /\ pc = "Idle"
    /\ user_input \in {strip(t) : t \in ToolInputs}
    /\ conversation_history = <<>>
    /\ context_file = Missing
    /\ context = <<>>
    /\ current_model = word_default
    /\ messages = <<>>
    /\ sent = 0
    /\ console = <<>>
    /\ matches = <<>>
    /\ running = <<>>
    /\ results = <<>>
    /\ analysis = NoAnalysis
    /\ fs \in {Files0, EmptyArgs}
    /\ last_outcome = NoOutcome
    /\ models = Models0
    /\ endpoint = NoEndpoint
    /\ sessions_file = NoSessions
    /\ saved = NoSessions

ToolNext ==
    \/ ToolRequest(user_input)
    \/ \E fault \in Faults : ToolStep(fault)
    \/ CommandStart
    \/ \E fault \in Faults : CommandEnd(fault)
    \/ ToolDone

ToolSpec == ToolInit /\ [][ToolNext]_vars

\* the end of the wait in subprocess.run, seen from pc: a step of CommandEnd
WaitEnds ==
    /\ pc = "Running"
    /\ \E fault \in Faults : Ends(running, fault)
    /\ pc' \in {"Tools", "Crashed"}

\* the clock that the timeout is measured with advances and the shell is
\* scheduled: a wait that can end does end
ToolLiveSpec == ToolInit /\ [][ToolNext]_vars /\ WF_pc(WaitEnds)

(***************************************************************************)
(* The analyzer on its own: a source file is on disk, /analyze runs on it  *)
(***************************************************************************)
AnalyzerInit ==
    /\ variant \in Variants
    /\ pc = "Idle"
    /\ user_input = <<>>
    /\ conversation_history = <<>>
    /\ context_file = Missing
    /\ context = <<>>
    /\ current_model = word_default
    /\ messages = <<>>
    /\ sent = 0
    /\ console = <<>>
    /\ matches = <<>>
    /\ running = <<>>
    /\ results = <<>>
    /\ analysis = NoAnalysis
    /\ fs \in {[p \in {<<"a">>} |-> src] : src \in Sources}
    /\ last_outcome = NoOutcome
    /\ models = Models0
    /\ endpoint = NoEndpoint
    /\ sessions_file = NoSessions
    /\ saved = NoSessions

AnalyzerNext == \E fault \in {"none", "RecursionError"} : AnalyzeFile(<<"a">>, fault)

AnalyzerSpec == AnalyzerInit /\ [][AnalyzerNext]_vars

(***************************************************************************)
(* The session with its commands: conversation and tool turns, /clear,     *)
(* /switch, /edit-context, /save-session, /load-session, and the program   *)
(* started again after it has ended                                        *)
(***************************************************************************)
\* what the user types at the prompt besides the commands
SessionTexts ==
    { <<"h","i">>,
      <<"y","\"","o">>,
      <<"t","o","o","l",":"," ","r","e","a","d","_","f","i","l","e"," ","p","a","t","h","=","a">> }

SessionCommands ==
    { cmd_clear, cmd_exit,
      cmd_switch \o <<" ","h",":","/","/","X">>,
      cmd_edit_context,
      cmd_save_session \o <<" ","s">>,
      cmd_load_session \o <<" ","s">> }

\* the commands by the branch of _handle_command that takes them
SwitchCommands == { t \in SessionCommands : lower(split(t)[1]) = cmd_switch }
EditCommands == { t \in SessionCommands : lower(split(t)[1]) = cmd_edit_context }
SaveCommands == { t \in SessionCommands : lower(split(t)[1]) = cmd_save_session }
LoadCommands == { t \in SessionCommands : lower(split(t)[1]) = cmd_load_session }
OtherCommands == SessionCommands \ (SwitchCommands \cup EditCommands \cup SaveCommands \cup LoadCommands)

\* aicode.md after an edit in the session: left as it is, or rewritten
EditedFiles == { Keep, File(<<"a","\"","b","\n","c","\\","d">>) }

\* the answers of the endpoint in the session
SessionOutcomes ==
    { [kind |-> "ok", content |-> <<"o","k">>],
      [kind |-> "http_error", content |-> <<>>] }

StoreFaults == {"none", "PermissionError"}

SessionInit ==
    /\ variant \in Variants
    /\ pc = "Idle"
    /\ user_input = <<>>
    /\ conversation_history = <<>>
    /\ context_file = File(doc_two)
    /\ context = load_context(<<>>, context_file)
    /\ current_model = word_default
    /\ messages = <<>>
    /\ sent = 0
    /\ console = <<>>
    /\ matches = <<>>
    /\ running = <<>>
    /\ results = <<>>
    /\ analysis = NoAnalysis
    /\ fs = Files0
    /\ last_outcome = NoOutcome
    /\ models = Models0
    /\ endpoint = NoEndpoint
    /\ sessions_file = NoSessions
    /\ saved = NoSessions

SessionNext ==
    \/ \E text \in OtherCommands : HandleCommand(text)
    \/ \E text \in SwitchCommands : SwitchModel(text, word_ollama)
    \/ \E text \in EditCommands, edit \in EditedFiles : EditContext(text, edit)
    \/ \E text \in SaveCommands, fault \in StoreFaults : SaveSession(text, <<"n">>, fault)
    \/ \E text \in LoadCommands, fault \in StoreFaults : LoadSession(text, fault)
    \/ \E text \in SessionTexts : ToolRequest(text)
    \/ ToolStep("none")
    \/ ToolDone
    \/ (Len(conversation_history) < MaxSession /\ \E text \in SessionTexts : Converse(text))
    \/ \E outcome \in SessionOutcomes : Respond(outcome, "ValueError")
    \/ EndOfInput
    \/ Restart

SessionSpec == SessionInit /\ [][SessionNext]_vars

(***************************************************************************)
(* Reloads of the project context: the user edits, empties, deletes or     *)
(* protects aicode.md while /edit-context waits, between conversation turns *)
(***************************************************************************)
ContextEdits ==
    { Keep, Missing, Unreadable, File(<<>>), File(<<"a","\"","b","\n","c","\\","d">>) }

ContextNext ==
    \/ \E edit \in ContextEdits : EditContext(cmd_edit_context, edit)
    \/ HandleCommand(cmd_exit)
    \/ (Len(conversation_history) < MaxSession /\ Converse(<<"h","i">>))
    \/ \E outcome \in SessionOutcomes : Respond(outcome, "ValueError")
    \/ Restart

ContextSpec == SessionInit /\ [][ContextNext]_vars

(***************************************************************************)
(* Properties                                                              *)
(***************************************************************************)
BuiltinTools == {read_file, write_file, execute_command, analyze_code, list_files}

\* the invocations of the current tool turn, executed or still pending
Invocations == {results[i].match : i \in DOMAIN results} \cup Range(matches)

\* the position just behind the line that holds position i of s
LineEnd(s, i) == Skip(s, i, NotNewline)

args_exit7 == <<"c","o","m","m","a","n","d","=","\"","e","x","i","t"," ","7","\"">>
command_exit7 == <<"e","x","i","t"," ","7">>
name_READ_FILE == <<"R","E","A","D","_","F","I","L","E">>

\* C1: the request of a conversation turn is one system message, then the last
\* min(3, n) exchanges of the history, oldest first, each as a user message
\* followed by its assistant message, then the user message of the current turn.
C1_MessageWindow ==
    pc = "AwaitingResponse" =>
        LET n == Len(conversation_history)
            k == Min(3, n)
        IN /\ Len(messages) = 2 * k + 2
           /\ messages[1].role = "system"
           /\ \A j \in 1..k :
                /\ messages[2 * j] =
                     Message("user", Fmt("", conversation_history[n - k + j].user))
                /\ messages[2 * j + 1] =
                     Message("assistant", Fmt("", conversation_history[n - k + j].assistant))
           /\ messages[2 * k + 2] = Message("user", Fmt("", user_input))

\* a request built over a history longer than the window, whose last two
\* exchanges differ and whose newest exchange differs from the current text
C1_Witness ==
    /\ pc = "AwaitingResponse"
    /\ Len(conversation_history) > 3
    /\ conversation_history[Len(conversation_history)].user
         # conversation_history[Len(conversation_history) - 1].user
    /\ conversation_history[Len(conversation_history)].user # user_input

FailureKinds == {"http_error", "timeout", "connection_error", "not_json", "no_choices",
                 "empty_choices", "no_message", "no_content"}

\* C2: a turn whose round trip fails (non-200, timeout, connection failure, a
\* 200 body without a usable choices array) leaves the history as it was.
C2_FailedTurnKeepsHistory ==
    [][(pc = "AwaitingResponse" /\ last_outcome'.kind \in FailureKinds)
        => conversation_history' = conversation_history]_vars

\* a failed round trip has ended on a history that holds exchanges
C2_Witness ==
    /\ pc = "Idle"
    /\ last_outcome.kind = "empty_choices"
    /\ Len(conversation_history) >= 2

\* C3: no answer of the endpoint ends the loop: after every outcome the loop
\* is back at the prompt.
C3_EndpointNeverFatal == ~(pc = "Crashed" /\ last_outcome.kind # "none")

\* C4: executing a tool returns a string for every name, argument text and
\* fault of the underlying operation; no exception leaves _execute_tool.
C4_NoExceptionEscapes ==
    /\ pc # "Crashed"
    /\ \A i \in DOMAIN results : results[i].exc = NoExc /\ results[i].ret # <<>>

\* the executions in which the operation failed, the timeout among them, and
\* the tool turned the fault into its result
C4_Witness ==
    \E i \in DOMAIN results :
        /\ results[i].fault = "TimeoutExpired"
        /\ results[i].match.name = execute_command
        /\ results[i].effects # <<>>
        /\ results[i].ret[1].lit = "Tool error: "

\* C5: a turn on a non-command input for which the parser yields no invocation
\* is a conversation turn, with one request sent; the tool turn replaces the
\* conversation only when an invocation was parsed.
C5_EmptyParseIsConversation ==
    /\ (user_input # <<>> /\ ~StartsWith(user_input, slash) /\ FindAll(user_input) = <<>>)
          => sent = 1
    /\ pc = "Tools" => FindAll(user_input) # <<>>

\* C6: the name and the arguments of an invocation come from the line that
\* holds its TOOL: token, the arguments being the rest of that line behind the name.
C6_LineLocal ==
    \A m \in Invocations :
        LET eol == LineEnd(user_input, m.start)
            rest == SubSeq(user_input, m.name_end, eol - 1)
        IN /\ m.name_end <= eol
           /\ m.args = SubSeq(rest, Skip(rest, 1, IsSpace), Len(rest))

\* C7: a TOOL: token with no identifier behind it on its line yields no invocation.
C7_NoNameNoInvocation ==
    \A m \in Invocations : m.name_start < LineEnd(user_input, m.start)

\* C8: a name that differs from a built-in tool only in letter case is run as
\* that tool and gives the result of the lower-case name.
C8_CaseInsensitiveNames ==
    \A i \in DOMAIN results :
        lower(results[i].match.name) \in BuiltinTools =>
            results[i].ret = execute_tool(lower(results[i].match.name), results[i].match.args,
                                          results[i].before, results[i].fault).ret

\* C9: an invocation whose name is not in the registry gives exactly one
\* result, "Unknown tool: " with the name as written in the input, and reads
\* no file, writes no file and runs no command.
C9_UnknownToolReported ==
    /\ pc = "Tools" =>
          /\ Len(results) + Len(matches) = Len(FindAll(user_input))
          /\ \A i \in DOMAIN results : results[i].match = FindAll(user_input)[i]
    /\ \A i \in DOMAIN results :
          LET r == results[i]
          IN r.match.name \notin BuiltinTools =>
               /\ r.ret = <<[lit |-> "Unknown tool: ",
                             val |-> SubSeq(user_input, r.match.name_start,
                                            r.match.name_end - 1)]>>
               /\ r.effects = <<>>
               /\ r.after = r.before

\* an unknown name written with capitals has been executed
C9_Witness ==
    \E i \in DOMAIN results :
        /\ results[i].match.name = name_READ_FILE
        /\ results[i].ret[1].lit = "Unknown tool: "

\* C10: a quoted value keeps the whitespace between its quotes: execute_command
\* with command="exit 7" runs `exit 7` and reports exit code 7.
C10_QuotedValueKeepsSpaces ==
    \A i \in DOMAIN results :
        (/\ results[i].match.name = execute_command
         /\ results[i].match.args = args_exit7
         /\ results[i].fault = "none")
        => /\ results[i].effects = Effect("run", command_exit7)
           /\ results[i].ret[1] = [lit |-> "Exit code: ", val |-> <<"7">>]

NotEq(c) == c # "="

\* the tokens of an argument text that hold a "=", in order
RECURSIVE Assignments(_)
Assignments(tokens) ==
    IF tokens = <<>> THEN <<>>
    ELSE (IF "=" \in Range(Head(tokens)) THEN <<Head(tokens)>> ELSE <<>>)
         \o Assignments(Tail(tokens))

KeyOf(t) == SubSeq(t, 1, Skip(t, 1, NotEq) - 1)
ValueOf(t) == SubSeq(t, Skip(t, 1, NotEq) + 1, Len(t))

MissingArgumentErrors == {"Error: path parameter required", "Error: content parameter required",
                          "Error: command parameter required", "Error: code parameter required"}

args_twice == <<"p","a","t","h","=","z","z"," ","x"," ","p","a","t","h","=","a">>
args_path_a == <<"p","a","t","h","=","a">>
args_path_empty == <<"p","a","t","h","=">>

\* C11: the keys of the parsed arguments are the keys of the tokens that hold
\* a "=", each with the value of its last such token; the other tokens add
\* nothing and raise nothing.
C11_LastOccurrenceWins ==
    \A i \in DOMAIN results :
        LET a == Assignments(split(results[i].match.args))
        IN /\ DOMAIN results[i].args = {KeyOf(a[j]) : j \in DOMAIN a}
           /\ \A j \in DOMAIN a :
                (\A k \in (j + 1)..Len(a) : KeyOf(a[k]) # KeyOf(a[j]))
                    => results[i].args[KeyOf(a[j])] = strip_quotes(ValueOf(a[j]))
           /\ results[i].exc = NoExc

\* read_file was given path twice around a token without "=", and has read
\* the file of the second path
C11_Witness ==
    \E i \in DOMAIN results :
        /\ results[i].match.name = read_file
        /\ results[i].match.args = args_twice
        /\ results[i].before = Files0
        /\ results[i].ret = Fmt("", Files0[<<"a">>])

\* the argument a tool requires by its "if not ..." test
RequiredKey(name) ==
    IF name = execute_command THEN key_command
    ELSE IF name = analyze_code THEN key_code
    ELSE key_path

RequiredError(name) ==
    IF name = execute_command THEN "Error: command parameter required"
    ELSE IF name = analyze_code THEN "Error: code parameter required"
    ELSE "Error: path parameter required"

\* C12: read_file, write_file, execute_command or analyze_code without its
\* required argument, or with it empty, returns the error that names the
\* parameter, and opens no file, writes no file and starts no process.
C12_MissingArgumentReported ==
    \A i \in DOMAIN results :
        LET r == results[i]
        IN (/\ r.match.name \in {read_file, write_file, execute_command, analyze_code}
            /\ Get(r.args, RequiredKey(r.match.name), <<>>) = <<>>)
           => /\ r.ret = <<[lit |-> RequiredError(r.match.name), val |-> <<>>]>>
              /\ r.effects = <<>>
              /\ r.after = r.before

\* read_file ran with an empty path on a disk that holds a file
C12_Witness ==
    \E i \in DOMAIN results :
        /\ results[i].match.name = read_file
        /\ results[i].match.args = args_path_empty
        /\ results[i].before = Files0

\* C13: write_file with a path and without content returns a
\* missing-argument error and leaves the file at the path as it was.
C13_WriteNeedsContent ==
    \A i \in DOMAIN results :
        LET r == results[i]
        IN (/\ r.match.name = write_file
            /\ Get(r.args, key_path, <<>>) # <<>>
            /\ key_content \notin DOMAIN r.args)
           => /\ r.ret[1].lit \in MissingArgumentErrors
              /\ r.after = r.before

\* C14: read_file on an existing readable file returns the contents of the
\* file and leaves it as it is; on a path that does not exist it returns an
\* error string and creates no file.
C14_ReadFileContents ==
    \A i \in DOMAIN results :
        LET r == results[i]
            path == Get(r.args, key_path, <<>>)
        IN (r.match.name = read_file /\ path # <<>>)
           => /\ (path \in DOMAIN r.before /\ r.fault = "none")
                    => r.ret = <<[lit |-> "", val |-> r.before[path]]>>
              /\ path \notin DOMAIN r.before
                    => /\ r.exc = NoExc
                       /\ r.ret[1].lit = "Tool error: "
                       /\ path \notin DOMAIN r.after
              /\ r.after = r.before

\* a missing file was asked for, then a file of two lines was read
C14_Witness ==
    /\ Len(results) = 2
    /\ results[1].match.name = read_file
    /\ Get(results[1].args, key_path, <<>>) # <<>>
    /\ Get(results[1].args, key_path, <<>>) \notin DOMAIN results[1].before
    /\ results[2].match.name = read_file
    /\ results[2].match.args = args_path_a
    /\ results[2].before = Files0
    /\ results[2].fault = "none"

\* C15: list_files is a built-in tool: without a path it returns the entries
\* of the current directory joined by newlines, with a path that is no
\* directory an error string, and never "Unknown tool".
C15_ListFilesBuiltin ==
    \A i \in DOMAIN results :
        LET r == results[i]
        IN r.match.name = list_files
           => /\ r.ret[1].lit # "Unknown tool: "
              /\ (key_path \notin DOMAIN r.args /\ r.fault = "none")
                    => r.ret = Listing(ListDir(r.before))
              /\ (key_path \in DOMAIN r.args /\ r.args[key_path] # dot)
                    => r.ret[1].lit = "Tool error: "

\* C16: an execute_command invocation returns to its turn: a command still
\* running when the 30 seconds are over ends in a "Tool error: " string, not in
\* a crash and not in an exit-code report, and the loop of the turn goes on.
C16_CommandReturns ==
    /\ [](\A i \in DOMAIN results :
            (results[i].effects = Effect("run", CommandOf(results[i].match))
             /\ results[i].fault = "TimeoutExpired")
            => (results[i].exc = NoExc /\ results[i].ret[1].lit = "Tool error: "))
    /\ [](pc # "Crashed")
    /\ (pc = "Running") ~> (pc = "Tools" /\ running = <<>>)

\* a command that never ends by itself was started and has ended in the timeout
C16_Witness ==
    /\ pc = "Tools"
    /\ \E i \in DOMAIN results :
          /\ results[i].match.name = execute_command
          /\ Hangs(CommandOf(results[i].match))
          /\ results[i].fault = "TimeoutExpired"
          /\ results[i].effects # <<>>

IsFailure(r) == r.ret[1].lit \in MissingArgumentErrors \cup {"Unknown tool: ", "Tool error: "}

\* C17: the invocations of an input are executed in the order of the text,
\* each once, and the ones behind a failed invocation are executed as well.
C17_InOrderPastFailures ==
    pc \in {"Tools", "Running"} =>
        LET all == [i \in DOMAIN results |-> results[i].match] \o matches
        IN /\ all = FindAll(user_input)
           /\ \A i, j \in DOMAIN all : i < j => all[i].start < all[j].start
           /\ \A i \in DOMAIN results : results[i].exc = NoExc

\* the loop has ended with an invocation executed behind a failed one
C17_Witness ==
    /\ pc = "Tools"
    /\ matches = <<>>
    /\ Len(results) = 2
    /\ IsFailure(results[1])
    /\ results[2].match.name = read_file
    /\ results[2].effects # <<>>

\* the part of a word in front of the first character c
RECURSIVE Before(_, _)
Before(w, c) ==
    IF w = <<>> \/ Head(w) = c THEN <<>> ELSE <<Head(w)>> \o Before(Tail(w), c)

\* the names behind the keyword kw at the start of the lines of a text, in the
\* order of the lines; a name ends in front of the character stop
RECURSIVE NamesInLines(_, _, _)
NamesInLines(lines, kw, stop) ==
    IF lines = <<>> THEN <<>>
    ELSE (IF Len(split(Head(lines))) > 1 /\ split(Head(lines))[1] = kw
          THEN <<Before(split(Head(lines))[2], stop)>>
          ELSE <<>>)
         \o NamesInLines(Tail(lines), kw, stop)

\* the import statements of a text as the analyzer is said to record them
RECURSIVE ImportsInLines(_)
ImportsInLines(lines) ==
    IF lines = <<>> THEN <<>>
    ELSE (IF Len(split(Head(lines))) > 1 /\ split(Head(lines))[1] = word_import
          THEN <<[lit |-> "", val |-> split(Head(lines))[2]]>>
          ELSE IF Len(split(Head(lines))) > 1 /\ split(Head(lines))[1] = word_from
          THEN <<[lit |-> "from ", val |-> split(Head(lines))[2]]>>
          ELSE <<>>)
         \o ImportsInLines(Tail(lines))

\* the names that a summary lists on the line that starts with lit
RECURSIVE ListedFrom(_, _)
ListedFrom(out, i) ==
    IF i <= Len(out) /\ out[i].lit = ", " /\ out[i].val # <<>>
    THEN <<out[i].val>> \o ListedFrom(out, i + 1)
    ELSE <<>>

Listed(out, lit) ==
    IF \E i \in DOMAIN out : out[i].lit = lit
    THEN LET i == CHOOSE j \in DOMAIN out : out[j].lit = lit
         IN <<out[i].val>> \o ListedFrom(out, i + 1)
    ELSE <<>>

\* the imports that a summary lists
ListedImports(out) == {i \in DOMAIN out : out[i].lit \in {"", "from "}}

Parsed(a) == a.output # <<>> /\ a.output[1].lit = "Lines of code: "

SummaryLines == {"Lines of code: ", "\nFunctions: ", "\nClasses: ", "\nImports: "}

code_nested_first ==
    <<"c","l","a","s","s"," ","C",":","\n",
      " ","d","e","f"," ","f","(",")",":"," ","p","a","s","s","\n",
      "d","e","f"," ","g","(",")",":"," ","p","a","s","s">>

\* C18: on a successful parse the summary lists the function names, and the
\* class names, in the order in which the definitions start in the text,
\* nested definitions included.
C18_DocumentOrder ==
    Parsed(analysis) =>
        /\ Listed(analysis.output, "\nFunctions: ")
             = NamesInLines(split_lines(analysis.code), word_def, "(")
        /\ Listed(analysis.output, "\nClasses: ")
             = NamesInLines(split_lines(analysis.code), word_class, ":")

\* C19: when the text does not parse, the result is the diagnostic alone: no
\* line count, no function, class or import names.
C19_OnlyDiagnostic ==
    (analysis.output # <<>> /\ analysis.code # <<>> /\ ~ast_parse(analysis.code).ok) =>
        /\ Len(analysis.output) = 2
        /\ analysis.output[1].lit \in {"Syntax Error: ", "Analysis Error: "}
        /\ \A i \in DOMAIN analysis.output :
              /\ analysis.output[i].lit \notin SummaryLines
              /\ analysis.output[i].val = <<>>

\* a text whose first line is a function definition and whose rest does not
\* parse was analysed
C19_Witness ==
    /\ analysis.output # <<>>
    /\ analysis.output[1].lit = "Syntax Error: "
    /\ StartsWith(analysis.code, <<"d","e","f"," ","g","(",")",":"," ","p","a","s","s","\n">>)

\* C20: the summary of a text that parses lists every import statement of the
\* text, a plain import by its name and a from-import as "from <module>".
C20_EveryImportRecorded ==
    Parsed(analysis) =>
        LET expected == ImportsInLines(split_lines(analysis.code))
            listed == ListedImports(analysis.output)
        IN /\ Cardinality(listed) = Len(expected)
           /\ {analysis.output[i] : i \in listed} = Range(expected)

\* s is an initial segment of t
IsPrefix(s, t) == Len(s) <= Len(t) /\ SubSeq(t, 1, Len(s)) = s

\* the step is the /clear command
ClearStep == pc = "Idle" /\ console' = <<"Conversation history cleared">>

\* the step is a /load-session that found the session
LoadStep == pc = "Idle" /\ console' = <<"Session loaded">>

\* the step is a /save-session that wrote the session
SaveStep == pc = "Idle" /\ console' = <<"Session saved as">>

\* the step is /edit-context, which ends in the reload
ReloadStep == pc = "Idle" /\ pc' = "Idle" /\ user_input' = cmd_edit_context

\* the step is /analyze
AnalyzeStep == pc = "Idle" /\ pc' = "Idle" /\ StartsWith(user_input', cmd_analyze)

\* C21: an analysis is a function of the analysed text alone, whatever the
\* session did before it (so that analysing the same text again gives the same
\* result), and an analysis changes neither the history, nor the context
\* excerpt, nor the active model.
C21_AnalysisStateless ==
    /\ []((analysis # NoAnalysis /\ analysis.output[1].lit # "Error analyzing file: ")
            => analysis.output = AnalysisOf(analysis.code, ast_parse(analysis.code)))
    /\ [][AnalyzeStep => UNCHANGED <<conversation_history, context, current_model, models>>]_vars

\* a file has been analysed in a session that holds exchanges and a context
C21_Witness ==
    /\ analysis # NoAnalysis
    /\ analysis.output # <<>>
    /\ Len(conversation_history) >= 2
    /\ context # <<>>

\* C22: /clear sets the history to the empty sequence from every state of the
\* session and leaves the context excerpt and the active model as they were.
C22_ClearEmptiesHistoryOnly ==
    [][ClearStep => /\ conversation_history' = <<>>
                    /\ UNCHANGED <<context, current_model, models>>]_vars

\* /clear has run in a session that had saved a non-empty history, holds a
\* context and has switched to another model
C22_Witness ==
    /\ console = <<"Conversation history cleared">>
    /\ conversation_history = <<>>
    /\ context # <<>>
    /\ current_model # word_default
    /\ \E n \in DOMAIN saved : saved[n].conversation_history # <<>>

\* C23 as stated: every operation of the session other than /clear, session
\* load included, leaves the history it found as a prefix of the history.
C23_AppendOnlyExceptClear ==
    [][(pc \notin {"Exited", "Crashed"} /\ ~ClearStep)
        => IsPrefix(conversation_history, conversation_history')]_vars

\* C23 amended: every operation of the session other than /clear and
\* /load-session leaves the history it found as a prefix of the history;
\* /load-session replaces the history by the saved one.
C23_AppendOnlyExceptClearAndLoad ==
    [][/\ (pc \notin {"Exited", "Crashed"} /\ ~ClearStep /\ ~LoadStep)
            => IsPrefix(conversation_history, conversation_history')
       /\ LoadStep => conversation_history' = saved[split(user_input')[2]].conversation_history
      ]_vars

\* a session was loaded over a history that is no prefix of the loaded one
C23_Witness ==
    /\ console = <<"Session loaded">>
    /\ Len(conversation_history) = 1
    /\ \E n \in DOMAIN saved : saved[n].conversation_history = conversation_history
    /\ conversation_history[1].user = <<"h","i">>

\* the lines of aicode.md: none when it is absent or cannot be read
LinesOf(file) == IF file.state = "file" THEN split_lines(file.text) ELSE <<>>

\* C24: after every reload the excerpt is the lines of aicode.md as it is at
\* that time, nothing of the excerpt held before is kept, also when the
\* document has become empty, missing or unreadable.
C24_ReloadReplaces ==
    [][ReloadStep => context' = LinesOf(context_file')]_vars

\* C25: the system message of every request is the base prompt when the
\* excerpt is empty, and otherwise the base prompt, the heading and the first
\* min(10, length) lines of the excerpt in order; no further line is in it.
C25_SystemMessage ==
    pc = "AwaitingResponse" =>
        /\ messages[1].role = "system"
        /\ messages[1].content[1] = [lit |-> "base_prompt", val |-> <<>>]
        /\ IF context = <<>>
           THEN Len(messages[1].content) = 1
           ELSE /\ Len(messages[1].content) = 2 + Min(10, Len(context))
                /\ messages[1].content[2] = [lit |-> "\n\nProject context:\n", val |-> <<>>]
                /\ \A i \in 1..Min(10, Len(context)) :
                      messages[1].content[2 + i] =
                          [lit |-> IF i = 1 THEN "" ELSE "\n", val |-> context[i]]

\* a request was built in a session whose excerpt has more than ten lines
C25_Witness ==
    /\ pc = "AwaitingResponse"
    /\ Len(context) > 10
    /\ context[11] # context[10]

\* C26: a conversation turn posts at most one request, and from
\* AwaitingResponse the session goes to Idle and to no other state, without
\* posting again; a request is posted only from Idle, on a new input.
C26_NoRetry ==
    /\ [](sent <= 1)
    /\ [][pc = "AwaitingResponse" => (pc' = "Idle" /\ sent' = sent)]_vars
    /\ [][pc' = "AwaitingResponse" => pc = "Idle"]_vars

\* C27: a turn whose input holds TOOL: in any case posts no request and leaves
\* the history as it was, and a turn that posts a request executes no tool and
\* touches no file, also when the reply holds a TOOL: line.
C27_ToolsAndEndpointExclusive ==
    /\ []((/\ user_input # <<>>
           /\ ~StartsWith(user_input, slash)
           /\ Contains(upper(user_input), TOOL_COLON))
          => (sent = 0 /\ messages = <<>> /\ pc # "AwaitingResponse"))
    /\ [][(pc \in {"Tools", "Running"} \/ pc' = "Tools") => UNCHANGED conversation_history]_vars
    /\ [](sent = 1 => (results = <<>> /\ matches = <<>> /\ running = <<>>))
    /\ [][pc = "AwaitingResponse" => (fs' = fs /\ pc' \notin {"Tools", "Running"})]_vars

\* the endpoint has answered with a TOOL: write_file line, and the file it
\* names was not written
C27_Witness ==
    /\ pc = "Idle"
    /\ sent = 1
    /\ last_outcome.kind = "ok"
    /\ Contains(last_outcome.content, TOOL_COLON \o <<" ">> \o write_file)
    /\ <<"c">> \notin DOMAIN fs
    /\ conversation_history # <<>>

\* C28: a conversation turn appends one exchange, last in the history, made of
\* the turn's text and the reply, when the endpoint answers 200 with a
\* non-empty reply; in every other case it appends nothing, and a 200 answer
\* with an empty reply is reported as a failure.
C28_OneExchangePerSuccess ==
    [][pc = "AwaitingResponse" =>
         IF last_outcome'.kind = "ok" /\ last_outcome'.content # <<>>
         THEN conversation_history' =
                 Append(conversation_history,
                        [user |-> user_input, assistant |-> last_outcome'.content])
         ELSE /\ conversation_history' = conversation_history
              /\ last_outcome' = [kind |-> "ok", content |-> <<>>]
                   => /\ pc' = "Idle"
                      /\ console' = <<"Error: Could not get response from model">>
      ]_vars

\* a 200 answer with an empty reply has ended a turn of a session that holds
\* exchanges
C28_Witness ==
    /\ pc = "Idle"
    /\ last_outcome = [kind |-> "ok", content |-> <<>>]
    /\ Len(conversation_history) >= 2
    /\ conversation_history[Len(conversation_history)].user # user_input

\* C29: loading a session restores the history, the context excerpt and the
\* active model to what they were when the session was last saved under that
\* name, whatever turns, /clear, /switch and reloads came in between.
C29_SaveLoadRoundTrip ==
    [][LoadStep =>
         \E s \in {saved[split(user_input')[2]]} :
            /\ conversation_history' = s.conversation_history
            /\ context' = s.context
            /\ current_model' = s.current_model]_vars

\* a session with a quote in its history and a backslash in its context was
\* loaded after the history had been cleared or extended
C29_Witness ==
    /\ console = <<"Session loaded">>
    /\ Len(conversation_history) = 1
    /\ "\"" \in Range(conversation_history[1].user)
    /\ \E i \in DOMAIN context : "\\" \in Range(context[i])
    /\ current_model # word_default

\* C30: the active model is an option of the model table in every state, and
\* every request is posted to the endpoint registered under it.
C30_ActiveModelRegistered ==
    /\ HasOption(models, current_model)
    /\ pc = "AwaitingResponse" => endpoint = models[optionxform(current_model)]

====
